---- MODULE Spec2Model ----
(***************************************************************************)
(* Step-progress indicator of the ai-mapping-agent.                        *)
(*                                                                         *)
(*   utils/ui_utils.py  STEPS, compute_current_step, render_progress       *)
(*   app.py             main                                               *)
(*                                                                         *)
(* The Streamlit session state and the two Streamlit widgets (st.write,    *)
(* st.progress) are the environment: the session state is a key/value      *)
(* store the host application writes between runs of the script, and the   *)
(* widgets are a sink that records what it is handed.                      *)
(*                                                                         *)
(* Python values are records [t, n, d, s]:                                 *)
(*   t = "absent"  no value (the key is not in the store)                  *)
(*   t = "int"     the integer n                                           *)
(*   t = "int53"   the integer 2^53 + n, |n| small (an int at the edge of   *)
(*                 the integers a float holds exactly)                     *)
(*   t = "bigint"  the integer n * 10^400 (an int beyond the range of a    *)
(*                 float; Python has one int type, the tag only names the  *)
(*                 scale)                                                  *)
(*   t = "bool"    True (n = 1) or False (n = 0)                           *)
(*   t = "float"   the float n/d (d > 0); d = 0 is a non-finite float:     *)
(*                 n = 0 is nan, n = 1 is inf, n = -1 is -inf              *)
(*   t = "str"     the string s, a sequence of Unicode code points         *)
(*   t = "none"    None                                                    *)
(* The float result of a true division is a record [hi, num, den], the     *)
(* float hi * 2^50 + num/den with num/den a reduced fraction.  For hi = 0   *)
(* and a denominator that is not a power of two it stands for the float     *)
(* nearest to num/den (distinct fractions of integers below 2^26 have       *)
(* distinct nearest floats, in the same order).                             *)
(***************************************************************************)
EXTENDS Integers, Sequences, FiniteSets, TLC

\* Largest magnitude of an integer the host stores under a key.
MaxMag == 6

VARIABLES
    STEPS,          \* ui_utils.STEPS, a module-level list
    session_state,  \* st.session_state: key -> value (absent keys map to Absent)
    pc,             \* position of the script run
    step,           \* main's local `step`
    progress,       \* render_progress's local `progress`
    exc,            \* the exception that ended the run, "none" if none
    accesses,       \* the calls this run has made on st.session_state
    out,            \* what this run has handed to the sink, in order
    shown           \* what the previous completed run left on the sink

vars == <<STEPS, session_state, pc, step, progress, exc, accesses, out, shown>>

----------------------------------------------------------------------------
\* Python values

Absent == [t |-> "absent", n |-> 0, d |-> 0, s |-> <<>>]
PyNone == [t |-> "none", n |-> 0, d |-> 0, s |-> <<>>]
PyInt(i) == [t |-> "int", n |-> i, d |-> 1, s |-> <<>>]
PyInt53(i) == [t |-> "int53", n |-> i, d |-> 1, s |-> <<>>]
PyBig(i) == [t |-> "bigint", n |-> i, d |-> 1, s |-> <<>>]
PyBool(b) == [t |-> "bool", n |-> IF b THEN 1 ELSE 0, d |-> 1, s |-> <<>>]
PyFloat(num, den) == [t |-> "float", n |-> num, d |-> den, s |-> <<>>]
PyStr(chars) == [t |-> "str", n |-> 0, d |-> 0, s |-> chars]

NoStep == [t |-> "unset", n |-> 0, d |-> 0, s |-> <<>>]
NoProgress == [hi |-> 0, num |-> 0, den |-> 0]

Keys == {"current_step", "mapping_done"}

StepInts == (0 - MaxMag) .. MaxMag

\* The integers 2^53 + n the host stores, on both sides of 2^53.
Int53Offsets == (0 - 2) .. 3

\* int() refuses a decimal string of more than this many digits
\* (sys.int_max_str_digits).
MaxStrDigits == 4300

\* The values a host may leave under "current_step".  Strings are code
\* points: 48..57 are "0".."9", 32 " ", 43 "+", 45 "-", 46 ".", 95 "_",
\* 13 "\r", 10 "\n", 12 "\f", 11 "\v", 97..99 "abc", 1635 ARABIC-INDIC
\* DIGIT THREE, 65301 FULLWIDTH DIGIT FIVE, 2407 2408 DEVANAGARI ONE TWO,
\* 160 NO-BREAK SPACE, 65291 FULLWIDTH PLUS SIGN.
StoredValues ==
    {PyInt(i) : i \in StepInts}
    \cup {PyInt53(i) : i \in Int53Offsets}
    \cup {PyBig(1), PyBig(0 - 1)}
    \cup {PyNone, PyBool(TRUE), PyBool(FALSE)}
    \cup {PyFloat(5, 2), PyFloat(-3, 2), PyFloat(0, 0), PyFloat(1, 0)}
    \cup {PyStr(<<51>>), PyStr(<<45, 49>>), PyStr(<<32, 43, 50, 32>>),
          PyStr(<<49, 95, 48>>), PyStr(<<48, 48, 55>>),
          PyStr(<<>>), PyStr(<<97, 98, 99>>), PyStr(<<49, 46, 53>>),
          PyStr(<<52, 95>>), PyStr(<<45>>),
          PyStr(<<51, 13>>), PyStr(<<32, 51, 13, 10>>), PyStr(<<12, 51, 11>>),
          PyStr(<<160, 51>>), PyStr(<<1635>>), PyStr(<<65301>>),
          PyStr(<<2407, 2408>>), PyStr(<<65291, 51>>), PyStr(<<51, 32, 51>>)}

----------------------------------------------------------------------------
\* int(x)

\* The code point of digit zero of every Unicode decimal-digit block
\* (48 is ASCII "0"); the ten digits of a block are consecutive.
DecimalZeros ==
    {48, 1632, 1776, 1984, 2406, 2534, 2662, 2790, 2918, 3046, 3174, 3302,
     3430, 3558, 3664, 3792, 3872, 4160, 4240, 6112, 6160, 6470, 6608, 6784,
     6800, 6992, 7088, 7232, 7248, 42528, 43216, 43264, 43472, 43504, 43600,
     44016, 65296, 66720, 68912, 69734, 69872, 69942, 70096, 70384, 70736,
     70864, 71248, 71360, 71472, 71904, 72016, 72784, 73040, 73120, 92768,
     92864, 93008, 120782, 120792, 120802, 120812, 120822, 123200, 123632,
     125264, 130032}

Digits == UNION {z .. (z + 9) : z \in DecimalZeros}

DigitVal(c) == c - (CHOOSE z \in DecimalZeros : c \in z .. (z + 9))

\* ASCII whitespace 9..13 and 32, and the Unicode spaces.
IsSpace(c) ==
    c \in (9 .. 13) \cup {32, 133, 160, 5760} \cup (8192 .. 8202)
          \cup {8232, 8233, 8239, 8287, 12288}

RECURSIVE LStrip(_)
LStrip(s) == IF s # <<>> /\ IsSpace(Head(s)) THEN LStrip(Tail(s)) ELSE s

RECURSIVE RStrip(_)
RStrip(s) ==
    IF s # <<>> /\ IsSpace(s[Len(s)]) THEN RStrip(SubSeq(s, 1, Len(s) - 1)) ELSE s

Strip(s) == RStrip(LStrip(s))

HasSign(s) == s # <<>> /\ Head(s) \in {43, 45}

Unsigned(s) == IF HasSign(s) THEN Tail(s) ELSE s

\* Decimal digits, single underscores (95) allowed between digits only, and
\* no more than MaxStrDigits digits.
ValidDigits(b) ==
    /\ b # <<>>
    /\ \A i \in 1 .. Len(b) : b[i] \in Digits \cup {95}
    /\ b[1] \in Digits
    /\ b[Len(b)] \in Digits
    /\ \A i \in 1 .. (Len(b) - 1) : ~(b[i] = 95 /\ b[i + 1] = 95)
    /\ Cardinality({i \in 1 .. Len(b) : b[i] \in Digits}) <= MaxStrDigits

RECURSIVE DigitsValue(_, _)
DigitsValue(b, acc) ==
    IF b = <<>> THEN acc
    ELSE IF Head(b) = 95 THEN DigitsValue(Tail(b), acc)
    ELSE DigitsValue(Tail(b), 10 * acc + DigitVal(Head(b)))

StrIsInt(s) == ValidDigits(Unsigned(Strip(s)))

StrToInt(s) ==
    LET t == Strip(s)
        v == DigitsValue(Unsigned(t), 0)
    IN  IF HasSign(t) /\ Head(t) = 45 THEN 0 - v ELSE v

\* Truncation toward zero.
Trunc(num, den) ==
    IF num >= 0 THEN num \div den ELSE 0 - ((0 - num) \div den)

\* The exception int(x) raises, "none" if it returns.
IntError(x) ==
    CASE x.t = "int" -> "none"
      [] x.t = "int53" -> "none"
      [] x.t = "bigint" -> "none"
      [] x.t = "bool" -> "none"
      [] x.t = "float" ->
            IF x.d # 0 THEN "none"
            ELSE IF x.n = 0 THEN "ValueError" ELSE "OverflowError"
      [] x.t = "str" -> IF StrIsInt(x.s) THEN "none" ELSE "ValueError"
      [] OTHER -> "TypeError"

\* int(x) followed by a clamp into the indices of a four-step registry.
IntOf_clamped(x) ==
    LET v == CASE x.t = "float" -> Trunc(x.n, x.d)
               [] x.t = "str" -> StrToInt(x.s)
               [] OTHER -> x.n
    IN  IF v < 0 THEN PyInt(0)
        ELSE IF v > 3 \/ x.t \in {"bigint", "int53"} THEN PyInt(3) ELSE PyInt(v)

\* The result of int(x) when it returns.
IntOf(x) ==
    CASE x.t = "int" -> x
      [] x.t = "int53" -> x
      [] x.t = "bigint" -> x
      [] x.t = "bool" -> PyInt(x.n)
      [] x.t = "float" -> PyInt(Trunc(x.n, x.d))
      [] x.t = "str" -> PyInt(StrToInt(x.s))

----------------------------------------------------------------------------
\* st.session_state.get(key, default)

\* A lookup whose fallback is the second step instead of the default given.
Get_wrong_default(store, key, default) ==
    IF store[key] = Absent THEN PyInt(1) ELSE store[key]

Get(store, key, default) ==
    IF store[key] = Absent THEN default ELSE store[key]

KeySet(store) == {k \in Keys : store[k] # Absent}

----------------------------------------------------------------------------
\* a / b on integers (true division), b # 0

Abs(a) == IF a < 0 THEN 0 - a ELSE a

RECURSIVE GCD(_, _)
GCD(a, b) == IF b = 0 THEN a ELSE GCD(b, a % b)

\* a / b for integers below 2^31.
TrueDiv(a, b) ==
    LET g == GCD(Abs(a), Abs(b))
        sgn == IF b < 0 THEN 0 - 1 ELSE 1
    IN  [hi |-> 0, num |-> sgn * (a \div g), den |-> sgn * (b \div g)]

\* The float nearest to the integer 2^53 + m is 2^53 + RoundOffset(m).
\* Below 2^53 every integer is a float; from 2^53 on only the even ones are,
\* and an odd one goes to the neighbour whose mantissa 2^52 + j is even.
RoundOffset(m) ==
    IF m <= 0 \/ m % 2 = 0 THEN m
    ELSE LET j == (m - 1) \div 2
         IN  IF j % 2 = 0 THEN 2 * j ELSE 2 * (j + 1)

\* (2^53 + m) / b for b in {1, 2, 4, 8}: dividing by a power of two scales
\* the float nearest to the dividend; 2^53 / b is (8 / b) * 2^50.
TrueDivBig(m, b) ==
    LET q == TrueDiv(RoundOffset(m), b)
    IN  CASE b \in {1, 2, 4, 8} -> [hi |-> 8 \div b, num |-> q.num, den |-> q.den]

\* (st + 1) / len(steps) is too large for a float: the quotient of an
\* integer n * 10^400, n # 0, by the length of a list.
DivOverflows(st, steps) == st.t = "bigint" /\ st.n # 0

----------------------------------------------------------------------------
\* render_progress: the two values it hands to the sink

\* The fraction of the zero-based index: step / len(STEPS).
ProgressOf_zero_based(st, steps) ==
    IF st.t = "int53" THEN TrueDivBig(st.n, Len(steps))
    ELSE TrueDiv(st.n, Len(steps))

\* Floor division: (step + 1) // len(STEPS).
ProgressOf_floordiv(st, steps) ==
    IF st.t = "int53" THEN TrueDivBig(st.n + 1, Len(steps))
    ELSE [hi |-> 0, num |-> (st.n + 1) \div Len(steps), den |-> 1]

\* (step + 1) / len(STEPS)
ProgressOf(st, steps) ==
    IF st.t = "int53" THEN TrueDivBig(st.n + 1, Len(steps))
    ELSE TrueDiv(st.n + 1, Len(steps))

\* 2^53 = 9007199254740992, written as its leading digits and its last six.
Two53Lead == "9007199254"

Two53Tail == 740992

\* str(v + 1); for 2^53 + n the last six digits absorb n + 1.
StrSucc(v) ==
    IF v.t = "int53" THEN Two53Lead \o ToString(Two53Tail + v.n + 1)
    ELSE ToString(v.n + 1)

\* A label whose numerator is clamped into 1 .. len(STEPS).
LabelOf_clamped(st, steps) ==
    LET shownStep == IF st.t = "int53" THEN Len(steps)
                     ELSE IF st.n + 1 < 1 THEN 1
                     ELSE IF st.n + 1 > Len(steps) THEN Len(steps) ELSE st.n + 1
    IN  "Step " \o ToString(shownStep) \o " of " \o ToString(Len(steps))

LabelOf(st, steps) ==
    "Step " \o StrSucc(st) \o " of " \o ToString(Len(steps))

----------------------------------------------------------------------------
STEPS_literal == <<"Upload File", "Map Accounts", "Review Results", "Finalize">>

Init ==
    /\ STEPS = STEPS_literal
    /\ session_state = [k \in Keys |-> Absent]
    /\ pc = "idle"
    /\ step = NoStep
    /\ progress = NoProgress
    /\ exc = "none"
    /\ accesses = <<>>
    /\ out = <<>>
    /\ shown = <<>>

\* The host application stores a value under a key between two runs.
HostSet ==
    /\ pc = "idle"
    /\ \E k \in Keys :
         \E v \in (IF k = "current_step" THEN StoredValues ELSE {PyBool(TRUE)}) :
            session_state' = [session_state EXCEPT ![k] = v]
    /\ UNCHANGED <<STEPS, pc, step, progress, exc, accesses, out, shown>>

\* The host application removes a key between two runs.
HostDel ==
    /\ pc = "idle"
    /\ \E k \in KeySet(session_state) :
            session_state' = [session_state EXCEPT ![k] = Absent]
    /\ UNCHANGED <<STEPS, pc, step, progress, exc, accesses, out, shown>>

\* app.py: the script calls main().
main ==
    /\ pc = "idle"
    /\ pc' = "main5"
    /\ step' = NoStep
    /\ progress' = NoProgress
    /\ exc' = "none"
    /\ accesses' = <<>>
    /\ out' = <<>>
    /\ UNCHANGED <<STEPS, session_state, shown>>

\* compute_current_step written with setdefault: an absent key is populated.
compute_current_step_setdefault ==
    /\ pc = "main5"
    /\ accesses' = Append(accesses, <<"setdefault", "current_step", PyInt(0)>>)
    /\ session_state' = [session_state EXCEPT
            !["current_step"] = Get(session_state, "current_step", PyInt(0))]
    /\ LET raw == Get(session_state, "current_step", PyInt(0))
       IN  IF IntError(raw) = "none"
           THEN /\ step' = IntOf(raw)
                /\ pc' = "render21"
                /\ exc' = exc
           ELSE /\ exc' = IntError(raw)
                /\ pc' = "raised"
                /\ step' = step
    /\ UNCHANGED <<STEPS, progress, out, shown>>

\* compute_current_step with the conversion failure caught and replaced by 0.
compute_current_step_coerce ==
    /\ pc = "main5"
    /\ accesses' = Append(accesses, <<"get", "current_step", PyInt(0)>>)
    /\ LET raw == Get(session_state, "current_step", PyInt(0))
       IN  step' = IF IntError(raw) = "none" THEN IntOf(raw) ELSE PyInt(0)
    /\ pc' = "render21"
    /\ UNCHANGED <<STEPS, session_state, progress, exc, out, shown>>

\* main line 5: step = compute_current_step()
compute_current_step ==
    /\ pc = "main5"
    /\ accesses' = Append(accesses, <<"get", "current_step", PyInt(0)>>)
    /\ LET raw == Get(session_state, "current_step", PyInt(0))
       IN  IF IntError(raw) = "none"
           THEN /\ step' = IntOf(raw)
                /\ pc' = "render21"
                /\ exc' = exc
           ELSE /\ exc' = IntError(raw)
                /\ pc' = "raised"
                /\ step' = step
    /\ UNCHANGED <<STEPS, session_state, progress, out, shown>>

\* Lines 21-22 with the progress bar drawn where the label belongs.
render_write_bar_first ==
    /\ pc = "render21"
    /\ IF Len(STEPS) = 0
       THEN /\ exc' = "ZeroDivisionError"
            /\ pc' = "raised"
            /\ UNCHANGED <<progress, out>>
       ELSE IF DivOverflows(step, STEPS)
       THEN /\ exc' = "OverflowError"
            /\ pc' = "raised"
            /\ UNCHANGED <<progress, out>>
       ELSE /\ progress' = ProgressOf(step, STEPS)
            /\ out' = Append(out, [w |-> "progress", text |-> "",
                                   value |-> ProgressOf(step, STEPS)])
            /\ pc' = "render23"
            /\ exc' = exc
    /\ UNCHANGED <<STEPS, session_state, step, accesses, shown>>

\* render_progress lines 21-22: the division, which raises on a zero
\* divisor or a quotient beyond a float, then st.write.
render_write ==
    /\ pc = "render21"
    /\ IF Len(STEPS) = 0
       THEN /\ exc' = "ZeroDivisionError"
            /\ pc' = "raised"
            /\ UNCHANGED <<progress, out>>
       ELSE IF DivOverflows(step, STEPS)
       THEN /\ exc' = "OverflowError"
            /\ pc' = "raised"
            /\ UNCHANGED <<progress, out>>
       ELSE /\ progress' = ProgressOf(step, STEPS)
            /\ out' = Append(out, [w |-> "write", text |-> LabelOf(step, STEPS),
                                   value |-> NoProgress])
            /\ pc' = "render23"
            /\ exc' = exc
    /\ UNCHANGED <<STEPS, session_state, step, accesses, shown>>

\* Line 23 taking the finished step off the registry after drawing the bar.
render_bar_pop ==
    /\ pc = "render23"
    /\ out' = Append(out, [w |-> "progress", text |-> "", value |-> progress])
    /\ pc' = "returned"
    /\ STEPS' = Tail(STEPS)
    /\ UNCHANGED <<session_state, step, progress, exc, accesses, shown>>

\* render_progress line 23: st.progress(progress).
render_bar ==
    /\ pc = "render23"
    /\ out' = Append(out, [w |-> "progress", text |-> "", value |-> progress])
    /\ pc' = "returned"
    /\ UNCHANGED <<STEPS, session_state, step, progress, exc, accesses, shown>>

\* The run ends: main has returned, or the exception has left the script.
main_exit ==
    /\ pc \in {"returned", "raised"}
    /\ pc' = "idle"
    /\ shown' = IF pc = "returned" THEN <<step, progress>> ELSE shown
    /\ UNCHANGED <<STEPS, session_state, step, progress, exc, accesses, out>>

Next ==
    \/ HostSet
    \/ HostDel
    \/ main
    \/ compute_current_step
    \/ render_write
    \/ render_bar
    \/ main_exit

Spec == Init /\ [][Next]_vars

\* The runs are synchronous: once started, each line of a run is executed.
FairSpec ==
    /\ Spec
    /\ WF_vars(compute_current_step)
    /\ WF_vars(render_write)
    /\ WF_vars(render_bar)
    /\ WF_vars(main_exit)

----------------------------------------------------------------------------
\* Properties

Running == pc \in {"render21", "render23", "returned", "raised"}

Stored == session_state["current_step"]

\* The sink was handed exactly a label and then a progress value.
LabelThenBar ==
    /\ Len(out) = 2
    /\ out[1].w = "write"
    /\ out[2].w = "progress"

\* The float f equals a / b (b > 0).
FracEq(f, a, b) == f.hi = 0 /\ f.den > 0 /\ f.num * b = a * f.den

\* f < g for floats with positive denominators.
FracLess(f, g) ==
    \/ f.hi < g.hi
    \/ f.hi = g.hi /\ f.num * g.den < g.num * f.den

\* v < w for integers below 2^31 and integers 2^53 + n.
StepLess(v, w) ==
    \/ v.t = "int" /\ w.t = "int53"
    \/ v.t = w.t /\ v.n < w.n

\* |v + 1| <= 2^53: the integers whose quotient by 4 is a float exactly.
Exact(v) == v.t = "int" \/ (v.t = "int53" /\ v.n + 1 <= 0)

\* The text is "Step {v+1} of 4", v+1 written out in full.
LabelShows(text, v) ==
    IF v.t = "int"
    THEN text = "Step " \o ToString(v.n + 1) \o " of 4"
    ELSE text = "Step 9007199254" \o ToString(740992 + v.n + 1) \o " of 4"

\* The float f is exactly (v + 1) / 4.
ExactQuotient(f, v) ==
    IF v.t = "int"
    THEN FracEq(f, v.n + 1, 4)
    ELSE f.hi = 2 /\ f.den > 0 /\ f.num * 4 = (v.n + 1) * f.den

\* The float f is (v + 1) / 4 as a float: exact where a float holds it, and
\* otherwise on the grid of floats (multiples of 1/2 from 2^51 on) at no
\* more than half a grid step from the quotient.
FloatQuotient(f, v) ==
    IF Exact(v)
    THEN ExactQuotient(f, v)
    ELSE /\ f.hi = 2
         /\ f.den \in {1, 2}
         /\ 4 * f.num - (v.n + 1) * f.den <= f.den
         /\ (v.n + 1) * f.den - 4 * f.num <= f.den

ValidLabels == <<"Step 1 of 4", "Step 2 of 4", "Step 3 of 4", "Step 4 of 4">>

\* C1: for every valid index i in 0 .. count()-1 (count() = 4), a completed
\* render(i) has emitted the label "Step {i+1} of 4" and the progress value
\* (i+1)/4; for i = 3 that is "Step 4 of 4" and 1.
C1_RenderValid ==
    (pc = "returned" /\ step.t = "int" /\ step.n \in 0 .. 3) =>
        /\ LabelThenBar
        /\ out[1].text = ValidLabels[step.n + 1]
        /\ FracEq(out[2].value, step.n + 1, 4)
        /\ (step.n = 3 => out[2].value = [hi |-> 0, num |-> 1, den |-> 1])

C1_Witness ==
    /\ pc = "returned"
    /\ Stored = PyInt(3)
    /\ out[1].text = "Step 4 of 4"
    /\ out[2].value = [hi |-> 0, num |-> 1, den |-> 1]

\* C2: with no "current_step" key in the session state, compute_current_step
\* returns 0 (it does not fail), and the completed pass has emitted
\* "Step 1 of 4" and the progress value 1/4.
C2_AbsentDefaultsToZero ==
    (Stored = Absent /\ Running) =>
        /\ pc # "raised"
        /\ step = PyInt(0)
        /\ (pc = "returned" =>
                /\ LabelThenBar
                /\ out[1].text = "Step 1 of 4"
                /\ out[2].value = [hi |-> 0, num |-> 1, den |-> 4])

C2_Witness ==
    /\ pc = "returned"
    /\ Stored = Absent
    /\ out[1].text = "Step 1 of 4"

\* C3: for every integer v stored under "current_step", negative and
\* beyond the registry included, compute_current_step returns exactly v
\* (it does not fail: the step of the run is v from then on).
C3_IntegerPassthrough ==
    (Stored.t \in {"int", "int53", "bigint"} /\ Running) => step = Stored

C3_Witness ==
    /\ pc = "render21"
    /\ Stored.t = "int"
    /\ Stored.n > 3
    /\ step = Stored

\* render_progress has been called with a step outside 0 .. count()-1 and
\* has ended, by returning or by raising.
RenderedOutOfRange ==
    /\ pc \in {"returned", "raised"}
    /\ step # NoStep
    /\ ~(step.t = "int" /\ step.n \in 0 .. 3)

\* C4 as stated: render does not clamp: for any integer step outside
\* 0 .. count()-1 the label shows step+1 literally and the progress value is
\* (step+1)/4.
C4_Original ==
    RenderedOutOfRange =>
        /\ pc = "returned"
        /\ LabelThenBar
        /\ (step.t \in {"int", "int53"} =>
                /\ LabelShows(out[1].text, step)
                /\ FloatQuotient(out[2].value, step))

\* C4 as amended: render does not clamp: for a step outside 0 .. count()-1
\* whose quotient (step+1)/4 is within the range of a float the label shows
\* step+1 literally and the progress value is (step+1)/4; step 5 gives
\* "Step 6 of 4" with 3/2, step -1 gives "Step 0 of 4" with 0.  For a step
\* whose quotient is beyond a float the division raises OverflowError and
\* neither label nor progress value is emitted.
C4_NoClamping ==
    RenderedOutOfRange =>
        IF step.t \in {"int", "int53"}
        THEN /\ pc = "returned"
             /\ LabelThenBar
             /\ LabelShows(out[1].text, step)
             /\ FloatQuotient(out[2].value, step)
             /\ (step = PyInt(5) =>
                     /\ out[1].text = "Step 6 of 4"
                     /\ out[2].value = [hi |-> 0, num |-> 3, den |-> 2])
             /\ (step = PyInt(0 - 1) =>
                     /\ out[1].text = "Step 0 of 4"
                     /\ out[2].value = [hi |-> 0, num |-> 0, den |-> 1])
        ELSE /\ pc = "raised"
             /\ exc = "OverflowError"
             /\ out = <<>>

C4_Witness ==
    /\ pc = "returned"
    /\ Stored = PyInt(5)
    /\ out[1].text = "Step 6 of 4"
    /\ out[2].value = [hi |-> 0, num |-> 3, den |-> 2]

\* C5: whatever integer the session state holds under "current_step", the
\* progress value handed to the sink is a fraction in [0, 1].
C5_ProgressInUnitInterval ==
    \A i \in 1 .. Len(out) :
        out[i].w = "progress" =>
            /\ out[i].value.hi = 0
            /\ out[i].value.den > 0
            /\ 0 <= out[i].value.num
            /\ out[i].value.num <= out[i].value.den

\* C6: no step of a run writes the session state -- its key set and every
\* value are the same after compute_current_step and render as before, an
\* absent key stays absent -- and the only call a run makes on the store is
\* get("current_step", 0).
C6_StoreReadOnly ==
    /\ [](\A i \in 1 .. Len(accesses) :
            accesses[i] = <<"get", "current_step", PyInt(0)>>)
    /\ [][(main \/ compute_current_step \/ render_write \/ render_bar \/ main_exit)
            => /\ session_state' = session_state
               /\ KeySet(session_state') = KeySet(session_state)]_vars

C6_Witness ==
    /\ pc = "returned"
    /\ Stored = Absent
    /\ KeySet(session_state) = {"mapping_done"}
    /\ Len(accesses) = 1

\* C7: when the stored "current_step" cannot be converted to an integer,
\* compute_current_step raises and the exception leaves main: the step is
\* not replaced by 0, and the pass emits neither label nor progress value.
C7_ConversionFailurePropagates ==
    (Stored # Absent /\ IntError(Stored) # "none" /\ Running) =>
        /\ pc = "raised"
        /\ exc \in {"TypeError", "ValueError", "OverflowError"}
        /\ step = NoStep
        /\ out = <<>>
        /\ (Stored = PyNone => exc = "TypeError")
        /\ (Stored = PyStr(<<97, 98, 99>>) => exc = "ValueError")

C7_Witness ==
    /\ pc = "raised"
    /\ Stored = PyStr(<<97, 98, 99>>)
    /\ exc = "ValueError"
    /\ out = <<>>

\* C8 as stated: no operation mutates the step registry: STEPS is always
\* the four names, its length is 4, and the division in render cannot fail.
C8_Original ==
    /\ STEPS = <<"Upload File", "Map Accounts", "Review Results", "Finalize">>
    /\ Len(STEPS) = 4
    /\ ~(pc = "raised" /\ step # NoStep)

\* C8 as amended: no operation mutates the step registry: STEPS is always
\* the four names, its length is 4, and the division in render never fails
\* on a zero divisor; it fails only with OverflowError, for a step whose
\* quotient is beyond a float.
C8_RegistryFixed ==
    /\ STEPS = <<"Upload File", "Map Accounts", "Review Results", "Finalize">>
    /\ Len(STEPS) = 4
    /\ exc # "ZeroDivisionError"
    /\ ((pc = "raised" /\ step # NoStep) =>
            /\ exc = "OverflowError"
            /\ step.t = "bigint")

C8_Witness ==
    /\ pc = "returned"
    /\ shown # <<>>
    /\ Len(out) = 2
    /\ Len(STEPS) = 4

\* C9: one run reads the session state, writes the label and writes the
\* progress value, in this order and each once, the label and the value being
\* those of the integer compute_current_step returned; a failing step ends
\* the run with nothing further executed; a run never goes back to an earlier
\* line, and a started run ends.
C9_PassShape ==
    /\ (pc = "main5" => accesses = <<>> /\ out = <<>>)
    /\ (pc \in {"render21", "render23", "returned", "raised"} =>
            accesses = <<<<"get", "current_step", PyInt(0)>>>>)
    /\ (pc \in {"render21", "render23", "returned"} =>
            /\ exc = "none"
            /\ step = IntOf(Get(session_state, "current_step", PyInt(0))))
    /\ (pc = "render21" => out = <<>>)
    /\ (pc = "render23" =>
            /\ Len(out) = 1
            /\ out[1].w = "write"
            /\ LabelShows(out[1].text, step))
    /\ (pc = "returned" =>
            /\ LabelThenBar
            /\ LabelShows(out[1].text, step)
            /\ FloatQuotient(out[2].value, step))
    /\ (pc = "raised" =>
            /\ exc # "none"
            /\ out = <<>>
            /\ (step # NoStep =>
                    step = IntOf(Get(session_state, "current_step", PyInt(0)))))

C9_Forward ==
    <<pc, pc'>> \in {<<"idle", "main5">>, <<"main5", "render21">>,
                     <<"main5", "raised">>, <<"render21", "render23">>,
                     <<"render21", "raised">>,
                     <<"render23", "returned">>, <<"returned", "idle">>,
                     <<"raised", "idle">>, <<"idle", "idle">>}

C9_OnePass ==
    /\ []C9_PassShape
    /\ [][C9_Forward]_vars
    /\ (pc = "main5" ~> pc \in {"returned", "raised"})
    /\ (pc \in {"returned", "raised"} ~> pc = "idle")

C9_Witness ==
    /\ pc = "returned"
    /\ LabelThenBar
    /\ accesses = <<<<"get", "current_step", PyInt(0)>>>>
    /\ step = PyInt(2)

\* The numbers a label can show, for every integer int() can return here.
MaxShown == MaxMag + 7

\* The label decodes to numerator a over denominator b, and a / b is the
\* progress value f exactly.
LabelAgrees(text, f) ==
    \/ \E a \in (0 - MaxShown) .. MaxShown : \E b \in 1 .. 9 :
            /\ text = "Step " \o ToString(a) \o " of " \o ToString(b)
            /\ FracEq(f, a, b)
    \/ \E m \in (0 - MaxShown) .. MaxShown : \E b \in {1, 2, 4, 8} :
            /\ text = "Step 9007199254" \o ToString(740992 + m) \o " of " \o ToString(b)
            /\ f.hi * b = 8
            /\ f.den > 0
            /\ f.num * b = m * f.den

InUnit(f) == f.hi = 0 /\ 0 < f.num /\ f.num <= f.den

IsOne(f) == f.hi = 0 /\ f.num = f.den

\* C10 as stated: the label and the progress value of one render agree
\* (numerator over denominator of the label is the progress value); the
\* progress value is strictly increasing in the step, lies in (0, 1] exactly
\* for the steps 0 .. count()-1, and is 1 exactly for step count()-1.
C10_Original ==
    pc = "returned" =>
        LET f == out[2].value
        IN  /\ LabelAgrees(out[1].text, f)
            /\ (InUnit(f) <=> (step.t = "int" /\ step.n \in 0 .. (Len(STEPS) - 1)))
            /\ (IsOne(f) <=> step = PyInt(Len(STEPS) - 1))
            /\ (shown # <<>> =>
                    /\ (StepLess(shown[1], step) => FracLess(shown[2], f))
                    /\ (StepLess(step, shown[1]) => FracLess(f, shown[2]))
                    /\ (shown[1] = step => shown[2] = f))

\* C10 as amended: for steps with |step+1| <= 2^53 the label and the
\* progress value of one render agree (numerator over denominator of the
\* label is the progress value) and the progress value is strictly
\* increasing in the step; over all steps that render, the progress value
\* is the float nearest to the label's quotient, never decreases as the
\* step grows, lies in (0, 1] exactly for the steps 0 .. count()-1, and is
\* 1 exactly for step count()-1.
C10_LabelAndBarAgree ==
    pc = "returned" =>
        LET f == out[2].value
        IN  /\ LabelShows(out[1].text, step)
            /\ FloatQuotient(f, step)
            /\ (Exact(step) => LabelAgrees(out[1].text, f))
            /\ (InUnit(f) <=> (step.t = "int" /\ step.n \in 0 .. (Len(STEPS) - 1)))
            /\ (IsOne(f) <=> step = PyInt(Len(STEPS) - 1))
            /\ (shown # <<>> =>
                    /\ (StepLess(shown[1], step) => ~FracLess(f, shown[2]))
                    /\ (StepLess(step, shown[1]) => ~FracLess(shown[2], f))
                    /\ ((Exact(shown[1]) /\ Exact(step)) =>
                            /\ (StepLess(shown[1], step) => FracLess(shown[2], f))
                            /\ (StepLess(step, shown[1]) => FracLess(f, shown[2])))
                    /\ (shown[1] = step => shown[2] = f))

C10_Witness ==
    /\ pc = "returned"
    /\ shown # <<>>
    /\ shown[1] = PyInt(2)
    /\ step = PyInt(3)
    /\ out[2].value = [hi |-> 0, num |-> 1, den |-> 1]

====
